---- MODULE Spec2Model ----
(***************************************************************************)
(* Verification model of scripts/generate_bean.py, the procedural bean     *)
(* character generator of Ruckus Royale.                                   *)
(*                                                                         *)
(* Lengths are fixed-point integers: one unit is 1/Scale of a Blender      *)
(* unit (0.70 is 7000).  math.sin and math.cos are modelled by a table of  *)
(* sines rounded to 1/Scale, sampled every 1.5 degrees, which covers every *)
(* angle the script asks for (multiples of 22.5, 36 and 15 degrees).       *)
(* Vertices are identified by their creation index (1-based), as bmesh     *)
(* identifies them by object identity; a face is the sequence of the       *)
(* vertex indices handed to bm.faces.new.                                  *)
(***************************************************************************)
EXTENDS Integers, Sequences, FiniteSets, TLC

\* ------------------------------------------------------------------------
\* Configuration (generate_bean.py lines 45-71), in units of 1/Scale
\* ------------------------------------------------------------------------
Scale == 10000

TORSO_HEIGHT == 7000
TORSO_RADIUS == 3200
HEAD_RADIUS == 2600
HEAD_BLEND_FACTOR == 6000

UPPER_ARM_LENGTH == 4000
UPPER_ARM_RADIUS == 1000
FOREARM_LENGTH == 3600
FOREARM_RADIUS == 900

THIGH_LENGTH == 4400
THIGH_RADIUS == 1100
SHIN_LENGTH == 4400
SHIN_RADIUS == 850

SHOULDER_Y == (TORSO_HEIGHT * 35) \div 100
SHOULDER_X == TORSO_RADIUS + 400
HIP_X == 1200
HIP_Y == -(TORSO_HEIGHT \div 2)

SUBDIV_LEVEL == 2

\* Literals of create_bean_torso and create_bean_mesh.
TORSO_MERGE_THRESHOLD == 200
FINAL_MERGE_THRESHOLD == 150
FOREARM_GAP == 200
SHIN_GAP == 200

\* Paths are sequences of components.
OUTPUT_PATH == << "apps", "client", "public", "models", "bean_character.glb" >>

\* ------------------------------------------------------------------------
\* Arithmetic: rounding division, math.sin / math.cos
\* ------------------------------------------------------------------------
\* a / d rounded to the nearest integer, symmetric about zero (d > 0).
RoundDiv(a, d) ==
    IF a >= 0 THEN (2 * a + d) \div (2 * d) ELSE -((2 * (-a) + d) \div (2 * d))

\* Angles are counted in steps of 1.5 degrees: FullTurn steps make 2*pi.
FullTurn == 240
QuarterTurn == 60

\* Scale * sin(k * 1.5 degrees), k = 0..60, rounded.
SinTable ==
    << 0, 262, 523, 785, 1045, 1305, 1564, 1822, 2079, 2334,
       2588, 2840, 3090, 3338, 3584, 3827, 4067, 4305, 4540, 4772,
       5000, 5225, 5446, 5664, 5878, 6088, 6293, 6494, 6691, 6884,
       7071, 7254, 7431, 7604, 7771, 7934, 8090, 8241, 8387, 8526,
       8660, 8788, 8910, 9026, 9135, 9239, 9336, 9426, 9511, 9588,
       9659, 9724, 9781, 9833, 9877, 9914, 9945, 9969, 9986, 9997,
       10000 >>

\* math.sin of an angle of a steps, times Scale.
Sin(a) ==
    LET m == a % FullTurn IN
    IF m <= QuarterTurn THEN SinTable[m + 1]
    ELSE IF m <= 2 * QuarterTurn THEN SinTable[2 * QuarterTurn - m + 1]
    ELSE IF m <= 3 * QuarterTurn THEN -SinTable[m - 2 * QuarterTurn + 1]
    ELSE -SinTable[FullTurn - m + 1]

\* math.cos of an angle of a steps, times Scale.
Cos(a) == Sin(a + QuarterTurn)

\* ------------------------------------------------------------------------
\* create_capsule (lines 90-180)
\* ------------------------------------------------------------------------
\* One ring of segments_ring vertices at height ring_y (the inner j loop).
RingVerts(ring_radius, ring_y, segments_ring) ==
    [jj \in 1..segments_ring |->
        LET theta == (FullTurn * (jj - 1)) \div segments_ring IN
        << RoundDiv(ring_radius * Cos(theta), Scale),
           ring_y,
           RoundDiv(ring_radius * Sin(theta), Scale) >>]

\* Bottom hemisphere cap: for i in range(cap_rings, 0, -1).
BottomCapRings(radius, half_length, segments_ring, segments_cap) ==
    [k \in 1..segments_cap |->
        LET i == segments_cap - k + 1
            angle == (QuarterTurn * i) \div segments_cap
        IN  RingVerts(RoundDiv(radius * Cos(angle), Scale),
                      -half_length - RoundDiv(radius * Sin(angle), Scale),
                      segments_ring)]

\* Variant of CylinderRings: range(rings) in place of range(rings + 1).
CylinderRingsShort(radius, half_length, segments_ring, segments_height) ==
    [k \in 1..segments_height |->
        LET i == k - 1
            total_height == 2 * half_length
        IN  RingVerts(radius,
                      -half_length + RoundDiv(total_height * i, segments_height),
                      segments_ring)]

\* Cylinder body: for i in range(rings + 1).
CylinderRings(radius, half_length, segments_ring, segments_height) ==
    [k \in 1..(segments_height + 1) |->
        LET i == k - 1
            total_height == 2 * half_length
        IN  RingVerts(radius,
                      -half_length + RoundDiv(total_height * i, segments_height),
                      segments_ring)]

\* Top hemisphere cap: for i in range(1, cap_rings + 1).
TopCapRings(radius, half_length, segments_ring, segments_cap) ==
    [i \in 1..segments_cap |->
        LET angle == (QuarterTurn * i) \div segments_cap
        IN  RingVerts(RoundDiv(radius * Cos(angle), Scale),
                      half_length + RoundDiv(radius * Sin(angle), Scale),
                      segments_ring)]

RECURSIVE Flatten(_)
Flatten(ss) == IF ss = << >> THEN << >> ELSE Head(ss) \o Flatten(Tail(ss))

\* verts_by_ring[i][j] (0-based i and j) is vertex i * segments_ring + j + 1
\* in creation order; the two poles are created after the rings.
RingVertex(i, j, segments_ring) == i * segments_ring + j + 1

\* Variant of QuadFaces: j_next = j + 1, without the modulo.
QuadFacesNoWrap(n_rings, segments_ring) ==
    [k \in 1..((n_rings - 1) * segments_ring) |->
        LET i == (k - 1) \div segments_ring
            j == (k - 1) % segments_ring
            j_next == j + 1
            v1 == RingVertex(i, j, segments_ring)
            v2 == RingVertex(i, j_next, segments_ring)
            v3 == RingVertex(i + 1, j_next, segments_ring)
            v4 == RingVertex(i + 1, j, segments_ring)
        IN  << v1, v2, v3, v4 >>]

\* Faces between rings (lines 153-161).
QuadFaces(n_rings, segments_ring) ==
    [k \in 1..((n_rings - 1) * segments_ring) |->
        LET i == (k - 1) \div segments_ring
            j == (k - 1) % segments_ring
            j_next == (j + 1) % segments_ring
            v1 == RingVertex(i, j, segments_ring)
            v2 == RingVertex(i, j_next, segments_ring)
            v3 == RingVertex(i + 1, j_next, segments_ring)
            v4 == RingVertex(i + 1, j, segments_ring)
        IN  << v1, v2, v3, v4 >>]

\* Bottom cap faces, triangles to the pole (lines 163-166).
BottomCapFaces(n_rings, segments_ring) ==
    [k \in 1..segments_ring |->
        LET j == k - 1
            j_next == (j + 1) % segments_ring
            bottom_pole == n_rings * segments_ring + 1
        IN  << bottom_pole, RingVertex(0, j_next, segments_ring),
               RingVertex(0, j, segments_ring) >>]

\* Variant of TopCapFaces: the winding of the bottom cap, [pole, next, this].
TopCapFacesReversed(n_rings, segments_ring) ==
    [k \in 1..segments_ring |->
        LET j == k - 1
            j_next == (j + 1) % segments_ring
            top_pole == n_rings * segments_ring + 2
        IN  << top_pole, RingVertex(n_rings - 1, j_next, segments_ring),
               RingVertex(n_rings - 1, j, segments_ring) >>]

\* Top cap faces, triangles to the pole (lines 168-172).
TopCapFaces(n_rings, segments_ring) ==
    [k \in 1..segments_ring |->
        LET j == k - 1
            j_next == (j + 1) % segments_ring
            top_pole == n_rings * segments_ring + 2
        IN  << top_pole, RingVertex(n_rings - 1, j, segments_ring),
               RingVertex(n_rings - 1, j_next, segments_ring) >>]

create_capsule(radius, half_length, segments_ring, segments_height, segments_cap) ==
    LET verts_by_ring ==
            BottomCapRings(radius, half_length, segments_ring, segments_cap)
            \o CylinderRings(radius, half_length, segments_ring, segments_height)
            \o TopCapRings(radius, half_length, segments_ring, segments_cap)
        bottom_pole == << 0, -half_length - radius, 0 >>
        top_pole == << 0, half_length + radius, 0 >>
    IN  [ verts |-> Flatten(verts_by_ring) \o << bottom_pole, top_pole >>,
          faces |-> QuadFaces(Len(verts_by_ring), segments_ring)
                    \o BottomCapFaces(Len(verts_by_ring), segments_ring)
                    \o TopCapFaces(Len(verts_by_ring), segments_ring) ]


\* ------------------------------------------------------------------------
\* create_sphere (lines 183-193): the host's bmesh.ops.create_uvsphere makes
\* v_segments - 1 latitude rings of u_segments vertices about the Z axis and
\* two poles.
\* ------------------------------------------------------------------------
create_sphere(radius, segments, rings) ==
    LET lat == [v \in 1..(rings - 1) |->
                  LET phi == (2 * QuarterTurn * v) \div rings
                      ring_radius == RoundDiv(radius * Sin(phi), Scale)
                      ring_z == RoundDiv(radius * Cos(phi), Scale)
                  IN  [u \in 1..segments |->
                         LET theta == (FullTurn * (u - 1)) \div segments IN
                         << RoundDiv(ring_radius * Cos(theta), Scale),
                            RoundDiv(ring_radius * Sin(theta), Scale),
                            ring_z >>]]
    IN  [ verts |-> Flatten(lat) \o << << 0, 0, radius >>, << 0, 0, -radius >> >> ]

\* ------------------------------------------------------------------------
\* Object transforms and the host's mesh operators used by the script
\* ------------------------------------------------------------------------
Abs(x) == IF x < 0 THEN -x ELSE x

Dist2(p, q) ==
    (p[1] - q[1]) * (p[1] - q[1]) + (p[2] - q[2]) * (p[2] - q[2])
    + (p[3] - q[3]) * (p[3] - q[3])

\* Two positions lie within distance d of each other.
Within(p, q, d) ==
    /\ Abs(p[1] - q[1]) <= d
    /\ Abs(p[2] - q[2]) <= d
    /\ Abs(p[3] - q[3]) <= d
    /\ Dist2(p, q) <= d * d

\* rotation_euler = (0, 0, a): rotation about the Z axis by a angle steps.
RotateZ(p, a) ==
    << RoundDiv(p[1] * Cos(a) - p[2] * Sin(a), Scale),
       RoundDiv(p[1] * Sin(a) + p[2] * Cos(a), Scale),
       p[3] >>

\* An object's transform applied to a point of its mesh: rotation, then
\* location.
ApplyTransform(p, rotation_z, location) ==
    LET r == RotateZ(p, rotation_z) IN
    << r[1] + location[1], r[2] + location[2], r[3] + location[3] >>

TransformVerts(verts, rotation_z, location) ==
    [k \in 1..Len(verts) |-> ApplyTransform(verts[k], rotation_z, location)]

\* bpy.ops.mesh.remove_doubles(threshold) on a fully selected mesh: the
\* vertices are visited in order; a vertex within the threshold of a vertex
\* already kept is welded onto it, any other vertex is kept.  The result is
\* the sequence of kept vertices.
RECURSIVE WeldRange(_, _, _, _, _)
WeldRange(verts, lo, hi, kept, threshold) ==
    IF lo > hi THEN kept
    ELSE IF lo = hi THEN
        IF \E k \in 1..Len(kept) : Within(kept[k], verts[lo], threshold)
        THEN kept
        ELSE Append(kept, verts[lo])
    ELSE LET left == WeldRange(verts, lo, (lo + hi) \div 2, kept, threshold) IN
         IF Len(left) >= 0
         THEN WeldRange(verts, ((lo + hi) \div 2) + 1, hi, left, threshold)
         ELSE left

remove_doubles(verts, threshold) == WeldRange(verts, 1, Len(verts), << >>, threshold)

\* bpy.ops.object.join(): the selected objects are merged into the active
\* one and removed from the scene.
JoinObjects(objs, active_name, selected_names) ==
    { o \in objs : o.name \notin (selected_names \ {active_name}) }

RenameObject(objs, old, new) ==
    { IF o.name = old THEN [o EXCEPT !.name = new] ELSE o : o \in objs }

\* ------------------------------------------------------------------------
\* create_bean_torso (lines 196-233)
\* ------------------------------------------------------------------------
create_bean_torso ==
    LET torso == create_capsule(TORSO_RADIUS, TORSO_HEIGHT \div 2, 16, 8, 6)
        head_y == TORSO_HEIGHT \div 2 + RoundDiv(HEAD_RADIUS * HEAD_BLEND_FACTOR, Scale)
        head == create_sphere(HEAD_RADIUS, 16, 12)
        joined == torso.verts \o TransformVerts(head.verts, 0, << 0, head_y, 0 >>)
    IN  [ name |-> "BeanBody",
          verts |-> remove_doubles(joined, TORSO_MERGE_THRESHOLD) ]

\* ------------------------------------------------------------------------
\* create_limb (lines 236-246)
\* ------------------------------------------------------------------------
create_limb(radius, half_length) == create_capsule(radius, half_length, 10, 4, 4)

\* ------------------------------------------------------------------------
\* create_bean_mesh (lines 249-310)
\* ------------------------------------------------------------------------
\* for side, sign in [("L", -1), ("R", 1)]
Sides == << [side |-> "L", sign |-> -1], [side |-> "R", sign |-> 1] >>

\* Variant of ArmParts: upper_x without the factor sign.
ArmPartsUnsigned(s) ==
    << [ name |-> "UpperArm_" \o s.side,
         radius |-> UPPER_ARM_RADIUS,
         half_length |-> UPPER_ARM_LENGTH \div 2,
         rotation_z |-> s.sign * QuarterTurn,
         location |-> << SHOULDER_X + UPPER_ARM_LENGTH \div 2, SHOULDER_Y, 0 >> ],
       [ name |-> "ForeArm_" \o s.side,
         radius |-> FOREARM_RADIUS,
         half_length |-> FOREARM_LENGTH \div 2,
         rotation_z |-> s.sign * QuarterTurn,
         location |-> << s.sign * (SHOULDER_X + UPPER_ARM_LENGTH
                                   + FOREARM_LENGTH \div 2 + FOREARM_GAP),
                         SHOULDER_Y, 0 >> ] >>

\* One iteration of the arm loop (lines 260-275): the placement of the
\* upper arm and of the forearm of one side.
ArmParts(s) ==
    << [ name |-> "UpperArm_" \o s.side,
         radius |-> UPPER_ARM_RADIUS,
         half_length |-> UPPER_ARM_LENGTH \div 2,
         rotation_z |-> s.sign * QuarterTurn,
         location |-> << s.sign * (SHOULDER_X + UPPER_ARM_LENGTH \div 2),
                         SHOULDER_Y, 0 >> ],
       [ name |-> "ForeArm_" \o s.side,
         radius |-> FOREARM_RADIUS,
         half_length |-> FOREARM_LENGTH \div 2,
         rotation_z |-> s.sign * QuarterTurn,
         location |-> << s.sign * (SHOULDER_X + UPPER_ARM_LENGTH
                                   + FOREARM_LENGTH \div 2 + FOREARM_GAP),
                         SHOULDER_Y, 0 >> ] >>

\* One iteration of the leg loop (lines 278-291).
LegParts(s) ==
    << [ name |-> "Thigh_" \o s.side,
         radius |-> THIGH_RADIUS,
         half_length |-> THIGH_LENGTH \div 2,
         rotation_z |-> 0,
         location |-> << s.sign * HIP_X, HIP_Y - THIGH_LENGTH \div 2, 0 >> ],
       [ name |-> "Shin_" \o s.side,
         radius |-> SHIN_RADIUS,
         half_length |-> SHIN_LENGTH \div 2,
         rotation_z |-> 0,
         location |-> << s.sign * HIP_X,
                         HIP_Y - THIGH_LENGTH - SHIN_LENGTH \div 2 - SHIN_GAP,
                         0 >> ] >>

\* parts[1:], in the order of the appends.
LimbParts ==
    ArmParts(Sides[1]) \o ArmParts(Sides[2]) \o LegParts(Sides[1]) \o LegParts(Sides[2])

\* The vertices of a limb after transform_apply.
PlacedVerts(part) ==
    TransformVerts(create_limb(part.radius, part.half_length).verts,
                   part.rotation_z, part.location)

\* Variant of JoinAndMerge: no remove_doubles after the join.
JoinWithoutMerge(body_verts, limbs) ==
    body_verts \o Flatten([k \in 1..Len(limbs) |-> PlacedVerts(limbs[k])])

\* transform_apply, join and remove_doubles of lines 293-308 on the body
\* and the limbs.
JoinAndMerge(body_verts, limbs) ==
    remove_doubles(body_verts \o Flatten([k \in 1..Len(limbs) |-> PlacedVerts(limbs[k])]),
                   FINAL_MERGE_THRESHOLD)

create_bean_mesh ==
    LET body == create_bean_torso
        limbs == LimbParts
    IN  [ name |-> "BeanCharacter",
          verts |-> JoinAndMerge(body.verts, limbs),
          parts |-> limbs ]

\* The objects of the scene after create_bean_mesh: every part is linked to
\* the collection, then joined into the body.
SceneAfterMesh(objs) ==
    LET with_torso == objs \cup { [name |-> "BeanTorso", kind |-> "MESH"],
                                  [name |-> "BeanHead", kind |-> "MESH"] }
        body == RenameObject(JoinObjects(with_torso, "BeanTorso", {"BeanTorso", "BeanHead"}),
                             "BeanTorso", "BeanBody")
        limb_names == { LimbParts[k].name : k \in 1..Len(LimbParts) }
        with_limbs == body \cup { [name |-> n, kind |-> "MESH"] : n \in limb_names }
    IN  RenameObject(JoinObjects(with_limbs, "BeanBody", limb_names \cup {"BeanBody"}),
                     "BeanBody", "BeanCharacter")

\* ------------------------------------------------------------------------
\* create_armature (lines 313-400): the edit bones in creation order
\* ------------------------------------------------------------------------
NoParent == "none"

Bone(name, head, tail, parent, use_connect) ==
    [ name |-> name, head |-> head, tail |-> tail, parent |-> parent,
      use_connect |-> use_connect ]

\* Root bone: torso (lines 333-337).
TorsoBone ==
    Bone("torso", << 0, 0, 0 >>, << 0, TORSO_HEIGHT \div 2, 0 >>, NoParent, FALSE)

\* Variant of HeadBone: head.parent is not set.
HeadBoneNoParent(torso) ==
    LET head_base_y == TORSO_HEIGHT \div 2 IN
    Bone("head", << 0, head_base_y, 0 >>, << 0, head_base_y + HEAD_RADIUS * 2, 0 >>,
         NoParent, TRUE)

\* Head bone (lines 339-345).
HeadBone(torso) ==
    LET head_base_y == TORSO_HEIGHT \div 2 IN
    Bone("head", << 0, head_base_y, 0 >>, << 0, head_base_y + HEAD_RADIUS * 2, 0 >>,
         torso.name, TRUE)

\* Left arm chain (lines 347-358).
LeftArmChain(torso) ==
    LET l_upper == Bone("l_upperArm", << -SHOULDER_X, SHOULDER_Y, 0 >>,
                        << -(SHOULDER_X + UPPER_ARM_LENGTH), SHOULDER_Y, 0 >>,
                        torso.name, FALSE)
        l_fore == Bone("l_foreArm", l_upper.tail,
                       << -(SHOULDER_X + UPPER_ARM_LENGTH + FOREARM_LENGTH), SHOULDER_Y, 0 >>,
                       l_upper.name, TRUE)
    IN  << l_upper, l_fore >>

\* Variant of RightArmChain: r_fore.parent = l_upper.
RightArmChainOnLeft(torso) ==
    LET r_upper == Bone("r_upperArm", << SHOULDER_X, SHOULDER_Y, 0 >>,
                        << SHOULDER_X + UPPER_ARM_LENGTH, SHOULDER_Y, 0 >>,
                        torso.name, FALSE)
        r_fore == Bone("r_foreArm", r_upper.tail,
                       << SHOULDER_X + UPPER_ARM_LENGTH + FOREARM_LENGTH, SHOULDER_Y, 0 >>,
                       "l_upperArm", TRUE)
    IN  << r_upper, r_fore >>

\* Right arm chain (lines 360-371).
RightArmChain(torso) ==
    LET r_upper == Bone("r_upperArm", << SHOULDER_X, SHOULDER_Y, 0 >>,
                        << SHOULDER_X + UPPER_ARM_LENGTH, SHOULDER_Y, 0 >>,
                        torso.name, FALSE)
        r_fore == Bone("r_foreArm", r_upper.tail,
                       << SHOULDER_X + UPPER_ARM_LENGTH + FOREARM_LENGTH, SHOULDER_Y, 0 >>,
                       r_upper.name, TRUE)
    IN  << r_upper, r_fore >>

\* Left leg chain (lines 373-384).
LeftLegChain(torso) ==
    LET l_thigh == Bone("l_thigh", << -HIP_X, HIP_Y, 0 >>,
                        << -HIP_X, HIP_Y - THIGH_LENGTH, 0 >>, torso.name, FALSE)
        l_shin == Bone("l_shin", l_thigh.tail,
                       << -HIP_X, HIP_Y - THIGH_LENGTH - SHIN_LENGTH, 0 >>,
                       l_thigh.name, TRUE)
    IN  << l_thigh, l_shin >>

\* Right leg chain (lines 386-397).
RightLegChain(torso) ==
    LET r_thigh == Bone("r_thigh", << HIP_X, HIP_Y, 0 >>,
                        << HIP_X, HIP_Y - THIGH_LENGTH, 0 >>, torso.name, FALSE)
        r_shin == Bone("r_shin", r_thigh.tail,
                       << HIP_X, HIP_Y - THIGH_LENGTH - SHIN_LENGTH, 0 >>,
                       r_thigh.name, TRUE)
    IN  << r_thigh, r_shin >>

create_armature ==
    LET torso == TorsoBone IN
    << torso, HeadBone(torso) >> \o LeftArmChain(torso) \o RightArmChain(torso)
    \o LeftLegChain(torso) \o RightLegChain(torso)

\* ------------------------------------------------------------------------
\* The remaining steps of main (lines 403-466) as functions of the state
\* ------------------------------------------------------------------------
\* Variant of clear_scene: nothing is deleted.
clear_scene_nothing(objs) == objs

\* clear_scene (lines 74-87): select_all and delete leave no object.
clear_scene(objs) == {}

\* Path helpers: os.path.dirname, os.path.isdir, os.makedirs(exist_ok=True).
DirName(path) == SubSeq(path, 1, Len(path) - 1)

IsDir(dirs, path) == path \in dirs

MakeDirs(dirs, path) == dirs \cup { SubSeq(path, 1, n) : n \in 1..Len(path) }

\* The process's working directory and os.path.abspath(__file__).
CWD == << "cwd" >>
SCRIPT_FILE == << "project", "scripts", "generate_bean.py" >>

\* Variant of ResolveOutputPath: an output argument on the command line wins.
ResolveOutputPathFromArgv(dirs, argv) ==
    IF Len(argv) >= 2 THEN CWD \o << argv[2] >>
    ELSE IF IsDir(dirs, CWD \o << "apps", "client", "public" >>)
    THEN CWD \o OUTPUT_PATH
    ELSE DirName(DirName(SCRIPT_FILE)) \o OUTPUT_PATH

\* Lines 488-496.  The command line is part of the environment and is not
\* read.
ResolveOutputPath(dirs, argv) ==
    IF IsDir(dirs, CWD \o << "apps", "client", "public" >>)
    THEN CWD \o OUTPUT_PATH
    ELSE LET script_dir == DirName(SCRIPT_FILE)
             project_root == DirName(script_dir)
         IN  project_root \o OUTPUT_PATH

\* The keyword arguments of bpy.ops.export_scene.gltf (lines 453-464).
GltfCall(filepath, dirs, selection) ==
    [ filepath |-> filepath,
      export_format |-> "GLB",
      use_selection |-> TRUE,
      export_apply |-> TRUE,
      export_animations |-> FALSE,
      export_skins |-> TRUE,
      export_normals |-> TRUE,
      export_materials |-> "EXPORT",
      export_colors |-> FALSE,
      export_yup |-> TRUE,
      selection |-> selection,
      dir_present |-> IsDir(dirs, DirName(filepath)) ]

\* The steps of main in program order; pc names the step about to run.
MainSteps ==
    << "clear_scene", "create_bean_mesh", "print_mesh_stats", "create_armature",
       "parent_mesh_to_armature", "add_subdivision_and_smooth", "add_material",
       "export_glb" >>

StepIndex(step) == CHOOSE k \in 1..Len(MainSteps) : MainSteps[k] = step

\* Where control goes when a step returns.
AfterStep(step) ==
    IF StepIndex(step) < Len(MainSteps) THEN MainSteps[StepIndex(step) + 1] ELSE "finish"

\* Variant of AfterRaise: the exception is caught and main goes on.
AfterRaiseSwallowed(step) == AfterStep(step)

\* Where control goes when a step raises: main has no try/except, the
\* exception leaves main and the interpreter.
AfterRaise(step) == "aborted"

\* ------------------------------------------------------------------------
\* State
\* ------------------------------------------------------------------------
NoMesh == [ name |-> "none", verts |-> << >> ]

VARIABLES
    pc,             \* main: the step about to run, or start/finish/done/aborted
    failed_at,      \* the step that raised, "none" if none
    fs_dirs,        \* the directories that exist
    files,          \* the files written
    output_path,    \* main's local output_path
    scene,          \* the objects linked to the scene
    selected,       \* names of the selected objects
    active,         \* name of the active object
    mesh,           \* the bean mesh object: name and vertex positions
    limb_parts,     \* the placement of the limb capsules joined into mesh
    bones,          \* the armature's bones in creation order
    mesh_parent,    \* the mesh object's parent and parent type
    vertex_groups,  \* names of the mesh object's vertex groups
    modifiers,      \* the mesh object's modifier stack
    materials,      \* the mesh data's material slots
    export_calls,   \* the completed bpy.ops.export_scene.gltf calls
    log,            \* the steps of main that returned, in order
    stdout,         \* the progress lines printed
    cap_pc,         \* create_capsule on its own: idle, args or built
    cap_args,       \* the arguments of that create_capsule call
    cap_mesh        \* the vertices and faces it returned

vars ==
    << pc, failed_at, fs_dirs, files, output_path, scene, selected, active, mesh,
       limb_parts, bones, mesh_parent, vertex_groups, modifiers, materials,
       export_calls, log, stdout, cap_pc, cap_args, cap_mesh >>

env_vars == << fs_dirs, files >>
rig_vars == << mesh, limb_parts, bones, mesh_parent, vertex_groups, modifiers, materials >>
cap_vars == << cap_pc, cap_args, cap_mesh >>

\* The objects of Blender's startup scene; any of them may be present.
DefaultObjects ==
    { [name |-> "Cube", kind |-> "MESH"],
      [name |-> "Light", kind |-> "LIGHT"],
      [name |-> "Camera", kind |-> "CAMERA"] }

\* The directories the script inspects or creates, as they may exist before
\* the run.
FsChoices ==
    LET cwd_public == CWD \o << "apps", "client", "public" >>
        project_models == << "project", "apps", "client", "public", "models" >>
    IN  { {},
          MakeDirs({}, project_models),
          MakeDirs({}, cwd_public),
          MakeDirs({}, cwd_public \o << "models" >>) }

\* Command lines the host may pass on (blender ... --python script -- args).
ArgvChoices == { << >>, << "--out", "elsewhere.glb" >> }

NoParentObject == [ object |-> "none", type |-> "none" ]

CapIdle ==
    /\ cap_pc = "idle"
    /\ cap_args = << >>
    /\ cap_mesh = [ verts |-> << >>, faces |-> << >> ]

Init ==
    /\ pc = "start"
    /\ failed_at = "none"
    /\ fs_dirs \in FsChoices
    /\ files = {}
    /\ output_path = << >>
    /\ scene \in SUBSET DefaultObjects
    /\ selected = {}
    /\ active = "none"
    /\ mesh = NoMesh
    /\ limb_parts = << >>
    /\ bones = << >>
    /\ mesh_parent = NoParentObject
    /\ vertex_groups = {}
    /\ modifiers = << >>
    /\ materials = << >>
    /\ export_calls = << >>
    /\ log = << >>
    /\ stdout = << >>
    /\ CapIdle

\* ------------------------------------------------------------------------
\* main (lines 483-533), one action per step
\* ------------------------------------------------------------------------
\* A step returned: it is logged and control moves on.
Returned(step) ==
    /\ log' = Append(log, step)
    /\ pc' = AfterStep(step)
    /\ UNCHANGED << failed_at, cap_vars >>

\* Lines 484-498: banner and output path.
DetermineOutputPath ==
    /\ pc = "start"
    /\ \E argv \in ArgvChoices : output_path' = ResolveOutputPath(fs_dirs, argv)
    /\ stdout' = stdout \o << "banner", "Output path" >>
    /\ pc' = MainSteps[1]
    /\ UNCHANGED << failed_at, env_vars, scene, selected, active, rig_vars,
                    export_calls, log, cap_vars >>

\* Step 1.
ClearScene ==
    /\ pc = "clear_scene"
    /\ scene' = clear_scene(scene)
    /\ selected' = {}
    /\ stdout' = Append(stdout, "[1/7]")
    /\ Returned("clear_scene")
    /\ UNCHANGED << env_vars, output_path, active, rig_vars, export_calls >>

\* Step 2.
CreateBeanMesh ==
    /\ pc = "create_bean_mesh"
    /\ LET built == create_bean_mesh IN
        /\ mesh' = [ name |-> built.name, verts |-> built.verts ]
        /\ limb_parts' = built.parts
        /\ scene' = SceneAfterMesh(scene)
        /\ selected' = { built.name }
        /\ active' = built.name
    /\ stdout' = Append(stdout, "[2/7]")
    /\ Returned("create_bean_mesh")
    /\ UNCHANGED << env_vars, output_path, bones, mesh_parent, vertex_groups,
                    modifiers, materials, export_calls >>

\* Step 3.
PrintMeshStats ==
    /\ pc = "print_mesh_stats"
    /\ stdout' = stdout \o << "[3/7]", "stats" >>
    /\ Returned("print_mesh_stats")
    /\ UNCHANGED << env_vars, output_path, scene, selected, active, rig_vars,
                    export_calls >>

\* Step 4.
CreateArmature ==
    /\ pc = "create_armature"
    /\ bones' = create_armature
    /\ scene' = scene \cup { [name |-> "BeanArmature", kind |-> "ARMATURE"] }
    /\ active' = "BeanArmature"
    /\ stdout' = Append(stdout, "[4/7]")
    /\ Returned("create_armature")
    /\ UNCHANGED << env_vars, output_path, selected, mesh, limb_parts, mesh_parent,
                    vertex_groups, modifiers, materials, export_calls >>

\* Step 5: parent_set(type="ARMATURE_AUTO") parents the selected mesh to the
\* active armature and gives it one vertex group per bone.
ParentMeshToArmature ==
    /\ pc = "parent_mesh_to_armature"
    /\ selected' = { mesh.name, "BeanArmature" }
    /\ active' = "BeanArmature"
    /\ mesh_parent' = [ object |-> "BeanArmature", type |-> "ARMATURE_AUTO" ]
    /\ vertex_groups' = { bones[k].name : k \in 1..Len(bones) }
    /\ stdout' = Append(stdout, "[5/7]")
    /\ Returned("parent_mesh_to_armature")
    /\ UNCHANGED << env_vars, output_path, scene, mesh, limb_parts, bones,
                    modifiers, materials, export_calls >>

\* Step 6.
AddSubdivisionAndSmooth ==
    /\ pc = "add_subdivision_and_smooth"
    /\ modifiers' = Append(modifiers, [ name |-> "Subdivision", type |-> "SUBSURF",
                                        levels |-> 1, render_levels |-> SUBDIV_LEVEL ])
    /\ active' = mesh.name
    /\ stdout' = Append(stdout, "[6/7]")
    /\ Returned("add_subdivision_and_smooth")
    /\ UNCHANGED << env_vars, output_path, scene, selected, mesh, limb_parts, bones,
                    mesh_parent, vertex_groups, materials, export_calls >>

\* add_material (line 525).
AddMaterial ==
    /\ pc = "add_material"
    /\ materials' = Append(materials, "BeanMaterial")
    /\ Returned("add_material")
    /\ UNCHANGED << env_vars, output_path, scene, selected, active, mesh, limb_parts,
                    bones, mesh_parent, vertex_groups, modifiers, export_calls, stdout >>

\* Step 7: export_glb (lines 441-466).
ExportGlb ==
    /\ pc = "export_glb"
    /\ selected' = { "BeanArmature", mesh.name }
    /\ active' = "BeanArmature"
    /\ fs_dirs' = MakeDirs(fs_dirs, DirName(output_path))
    /\ export_calls' = Append(export_calls,
                              GltfCall(output_path, fs_dirs',
                                       { o \in scene : o.name \in selected' }))
    /\ files' = files \cup { output_path }
    /\ stdout' = stdout \o << "[7/7]", "Exported" >>
    /\ Returned("export_glb")
    /\ UNCHANGED << output_path, scene, rig_vars >>

DoneMessage == "Done! Bean character exported successfully."

\* Lines 531-533.
Finish ==
    /\ pc = "finish"
    /\ stdout' = Append(stdout, DoneMessage)
    /\ pc' = "done"
    /\ UNCHANGED << failed_at, env_vars, output_path, scene, selected, active,
                    rig_vars, export_calls, log, cap_vars >>

\* A host operation of the step about to run raises.  What the step had
\* done to the scene before raising is not recorded; for export_glb the
\* refusal may come from os.makedirs or, directories made, from the exporter.
StepRaises ==
    /\ pc \in { MainSteps[k] : k \in 1..Len(MainSteps) }
    /\ failed_at' = pc
    /\ pc' = AfterRaise(pc)
    /\ \/ UNCHANGED fs_dirs
       \/ /\ pc = "export_glb"
          /\ fs_dirs' = MakeDirs(fs_dirs, DirName(output_path))
          /\ fs_dirs' # fs_dirs
    /\ UNCHANGED << files, output_path, scene, selected, active, rig_vars,
                    export_calls, log, stdout, cap_vars >>

Next ==
    \/ DetermineOutputPath
    \/ ClearScene
    \/ CreateBeanMesh
    \/ PrintMeshStats
    \/ CreateArmature
    \/ ParentMeshToArmature
    \/ AddSubdivisionAndSmooth
    \/ AddMaterial
    \/ ExportGlb
    \/ Finish
    \/ StepRaises

Spec == Init /\ [][Next]_vars

\* ------------------------------------------------------------------------
\* create_capsule on its own: the arguments are drawn from a bounded set,
\* the one action applies the function
\* ------------------------------------------------------------------------
MaxSegmentsRing == 5
MaxSegmentsHeight == 3
MaxSegmentsCap == 2

\* (radius, half_length) pairs the script uses.
CapsuleDimensions ==
    { << TORSO_RADIUS, TORSO_HEIGHT \div 2 >>,
      << UPPER_ARM_RADIUS, UPPER_ARM_LENGTH \div 2 >>,
      << SHIN_RADIUS, SHIN_LENGTH \div 2 >> }

\* (segments_ring, segments_height, segments_cap): a grid of small counts
\* whose angles fall on the sine table, and the two triples the script uses.
CapsuleSegments ==
    { << r, h, c >> : r \in { x \in 3..MaxSegmentsRing : FullTurn % x = 0 },
                      h \in 1..MaxSegmentsHeight,
                      c \in { x \in 1..MaxSegmentsCap : QuarterTurn % x = 0 } }
    \cup { << 16, 8, 6 >>, << 10, 4, 4 >> }

CapsuleArgs ==
    { [ radius |-> d[1], half_length |-> d[2], segments_ring |-> g[1],
        segments_height |-> g[2], segments_cap |-> g[3] ] :
      d \in CapsuleDimensions, g \in CapsuleSegments }

InitCapsule ==
    /\ pc = "idle"
    /\ failed_at = "none"
    /\ fs_dirs = {}
    /\ files = {}
    /\ output_path = << >>
    /\ scene = {}
    /\ selected = {}
    /\ active = "none"
    /\ mesh = NoMesh
    /\ limb_parts = << >>
    /\ bones = << >>
    /\ mesh_parent = NoParentObject
    /\ vertex_groups = {}
    /\ modifiers = << >>
    /\ materials = << >>
    /\ export_calls = << >>
    /\ log = << >>
    /\ stdout = << >>
    /\ cap_pc = "args"
    /\ cap_args \in CapsuleArgs
    /\ cap_mesh = [ verts |-> << >>, faces |-> << >> ]

CreateCapsule ==
    /\ cap_pc = "args"
    /\ cap_mesh' = create_capsule(cap_args.radius, cap_args.half_length,
                                  cap_args.segments_ring, cap_args.segments_height,
                                  cap_args.segments_cap)
    /\ cap_pc' = "built"
    /\ UNCHANGED << pc, failed_at, env_vars, output_path, scene, selected, active,
                    rig_vars, export_calls, log, stdout, cap_args >>

NextCapsule == CreateCapsule

SpecCapsule == InitCapsule /\ [][NextCapsule]_vars

\* ------------------------------------------------------------------------
\* Properties of create_capsule (specification SpecCapsule)
\* ------------------------------------------------------------------------
CapsuleBuilt == cap_pc = "built"

SegmentsOf(a) == << a.segments_ring, a.segments_height, a.segments_cap >>

\* The rings the arguments ask for: the caps and the cylinder.
ExpectedRings(a) == 2 * a.segments_cap + a.segments_height + 1

\* C1: the mesh create_capsule returns has
\* segments_ring * (2 * segments_cap + segments_height + 1) + 2 vertices:
\* 338 for the torso's (16, 8, 6) and 132 for a limb's (10, 4, 4).
C1_VertexCount ==
    CapsuleBuilt =>
        /\ Len(cap_mesh.verts) = cap_args.segments_ring * ExpectedRings(cap_args) + 2
        /\ SegmentsOf(cap_args) = << 16, 8, 6 >> => Len(cap_mesh.verts) = 338
        /\ SegmentsOf(cap_args) = << 10, 4, 4 >> => Len(cap_mesh.verts) = 132

C1_Witness ==
    /\ CapsuleBuilt
    /\ SegmentsOf(cap_args) = << 16, 8, 6 >>
    /\ Len(cap_mesh.verts) = 338

\* Vertex j (0-based) of ring i (0-based, bottom to top) of the built capsule,
\* and its poles, by creation order.
Ring(i, j) == i * cap_args.segments_ring + j + 1
BottomPole == cap_args.segments_ring * ExpectedRings(cap_args) + 1
TopPole == cap_args.segments_ring * ExpectedRings(cap_args) + 2

Columns == 0..(cap_args.segments_ring - 1)
NextColumn(j) == (j + 1) % cap_args.segments_ring

FaceSet == { cap_mesh.faces[k] : k \in 1..Len(cap_mesh.faces) }

ExpectedQuads ==
    { << Ring(i, j), Ring(i, NextColumn(j)), Ring(i + 1, NextColumn(j)), Ring(i + 1, j) >> :
        i \in 0..(ExpectedRings(cap_args) - 2), j \in Columns }

ExpectedBottomFan ==
    { << BottomPole, Ring(0, NextColumn(j)), Ring(0, j) >> : j \in Columns }

ExpectedTopFan ==
    { << TopPole, Ring(ExpectedRings(cap_args) - 1, j),
         Ring(ExpectedRings(cap_args) - 1, NextColumn(j)) >> : j \in Columns }

\* The rings are stacked along the capsule's axis: the vertices of one ring
\* share their height, a ring is not below the ring before it, and the poles
\* close the stack.
RingsStacked ==
    /\ \A i \in 0..(ExpectedRings(cap_args) - 1) : \A j \in Columns :
          cap_mesh.verts[Ring(i, j)][2] = cap_mesh.verts[Ring(i, 0)][2]
    /\ \A i \in 0..(ExpectedRings(cap_args) - 2) :
          cap_mesh.verts[Ring(i, 0)][2] < cap_mesh.verts[Ring(i + 1, 0)][2]
    /\ cap_mesh.verts[BottomPole][2] <= cap_mesh.verts[Ring(0, 0)][2]
    /\ cap_mesh.verts[TopPole][2] >= cap_mesh.verts[Ring(ExpectedRings(cap_args) - 1, 0)][2]

\* C4: the faces are one quad per pair of vertically adjacent rings and
\* column, and one triangle per column at each pole; so there are
\* segments_ring * (2 * segments_cap + segments_height) quads and
\* 2 * segments_ring triangles, no face repeats a vertex and every face uses
\* vertices of the capsule only.
C4_Faces ==
    CapsuleBuilt =>
        /\ RingsStacked
        /\ FaceSet = ExpectedQuads \cup ExpectedBottomFan \cup ExpectedTopFan
        /\ Cardinality(FaceSet) = Len(cap_mesh.faces)
        /\ Cardinality({ f \in FaceSet : Len(f) = 4 })
             = cap_args.segments_ring * (2 * cap_args.segments_cap + cap_args.segments_height)
        /\ Cardinality({ f \in FaceSet : Len(f) = 3 }) = 2 * cap_args.segments_ring
        /\ \A f \in FaceSet :
             /\ Len(f) \in {3, 4}
             /\ Cardinality({ f[k] : k \in 1..Len(f) }) = Len(f)
             /\ \A k \in 1..Len(f) : f[k] \in 1..Len(cap_mesh.verts)

C4_Witness ==
    /\ CapsuleBuilt
    /\ SegmentsOf(cap_args) = << 10, 4, 4 >>
    /\ Len(cap_mesh.faces) = 140
    /\ << BottomPole, Ring(0, 0), Ring(0, 9) >> \in FaceSet

\* The directed edges of a face: each vertex to the next, the last to the
\* first.
DirectedEdges(f) == { << f[k], f[(k % Len(f)) + 1] >> : k \in 1..Len(f) }

FaceIndices == 1..Len(cap_mesh.faces)

AllDirectedEdges == UNION { DirectedEdges(cap_mesh.faces[n]) : n \in FaceIndices }

FacesWithEdge(e) == { n \in FaceIndices : e \in DirectedEdges(cap_mesh.faces[n]) }

\* C9: the faces form a closed, consistently oriented surface: every
\* directed edge lies in exactly one face and its reverse in exactly one
\* other face, every vertex is used, and V - E + F = 2.
C9_ClosedOriented ==
    CapsuleBuilt =>
        /\ \A e \in AllDirectedEdges :
             /\ e[1] # e[2]
             /\ Cardinality(FacesWithEdge(e)) = 1
             /\ Cardinality(FacesWithEdge(<< e[2], e[1] >>)) = 1
             /\ FacesWithEdge(e) # FacesWithEdge(<< e[2], e[1] >>)
        /\ { e[1] : e \in AllDirectedEdges } = 1..Len(cap_mesh.verts)
        /\ 2 * (Len(cap_mesh.verts) + Len(cap_mesh.faces) - 2)
             = Cardinality(AllDirectedEdges)

C9_Witness ==
    /\ CapsuleBuilt
    /\ cap_args.segments_ring = 3
    /\ << TopPole, Ring(ExpectedRings(cap_args) - 1, 0) >> \in AllDirectedEdges
    /\ << Ring(ExpectedRings(cap_args) - 1, 0), TopPole >> \in AllDirectedEdges

\* ------------------------------------------------------------------------
\* Properties of the armature (specification Spec)
\* ------------------------------------------------------------------------
ArmatureBuilt == bones # << >>

BoneIndices == 1..Len(bones)
BoneNames == { bones[k].name : k \in BoneIndices }
BoneNamed(n) == bones[CHOOSE k \in BoneIndices : bones[k].name = n]

\* The bone reached from bone n by following parents k times; NoParent once
\* the chain has ended.
RECURSIVE Up(_, _)
Up(n, k) ==
    IF k = 0 THEN n
    ELSE IF n \notin BoneNames THEN NoParent
    ELSE Up(BoneNamed(n).parent, k - 1)

RootBones == { k \in BoneIndices : bones[k].parent = NoParent }

Descendants(r) ==
    { n \in BoneNames \ {r} : \E k \in BoneIndices : Up(n, k) = r }

\* C2 as stated: one root bone, torso, with exactly eight descendants.
C2_EightDescendants ==
    ArmatureBuilt =>
        /\ Cardinality(RootBones) = 1
        /\ \A k \in RootBones : bones[k].name = "torso"
        /\ Cardinality(Descendants("torso")) = 8

\* C2, amended: the skeleton has exactly one root bone, torso, and that root
\* has exactly nine descendants (the head and the eight limb bones).
C2_NineDescendants ==
    ArmatureBuilt =>
        /\ Cardinality(RootBones) = 1
        /\ \A k \in RootBones : bones[k].name = "torso"
        /\ Cardinality(Descendants("torso")) = 9
        /\ Len(bones) = 10

C2_Witness ==
    /\ ArmatureBuilt
    /\ "create_armature" \in { log[k] : k \in 1..Len(log) }
    /\ "head" \in Descendants("torso")
    /\ "r_shin" \in Descendants("torso")

\* The hierarchy of the module docstring (lines 24-34), as (bone, parent).
DocumentedHierarchy ==
    { << "torso", NoParent >>,
      << "head", "torso" >>,
      << "l_upperArm", "torso" >>, << "l_foreArm", "l_upperArm" >>,
      << "r_upperArm", "torso" >>, << "r_foreArm", "r_upperArm" >>,
      << "l_thigh", "torso" >>, << "l_shin", "l_thigh" >>,
      << "r_thigh", "torso" >>, << "r_shin", "r_thigh" >> }

\* C3: after create_armature the parent relation is the documented
\* hierarchy; it is acyclic, bone names are pairwise distinct and every bone
\* reaches torso in at most two parent steps.
C3_Hierarchy ==
    ArmatureBuilt =>
        /\ { << bones[k].name, bones[k].parent >> : k \in BoneIndices } = DocumentedHierarchy
        /\ Cardinality(BoneNames) = Len(bones)
        /\ \A n \in BoneNames : \A k \in BoneIndices : Up(n, k) # n
        /\ \A n \in BoneNames : \E k \in 0..2 : Up(n, k) = "torso"

C3_Witness ==
    /\ ArmatureBuilt
    /\ Up("r_shin", 1) = "r_thigh"
    /\ Up("r_shin", 2) = "torso"
    /\ Up("l_foreArm", 2) = "torso"

\* ------------------------------------------------------------------------
\* Properties of main (specification Spec)
\* ------------------------------------------------------------------------
IsPrefix(a, b) == Len(a) <= Len(b) /\ a = SubSeq(b, 1, Len(a))

\* The steps C5 names, in the order it names them.
ClaimedOrder ==
    << "clear_scene", "create_bean_mesh", "create_armature", "parent_mesh_to_armature",
       "add_subdivision_and_smooth", "add_material", "export_glb" >>

IsClaimedStep(step) == \E k \in 1..Len(ClaimedOrder) : ClaimedOrder[k] = step

MeshObjects == { o \in scene : o.kind = "MESH" }
ArmatureObjects == { o \in scene : o.kind = "ARMATURE" }

\* C5: the steps happen once each in the order clear scene, build mesh,
\* build armature, bind, subdivision, material, export; export is last and
\* happens once, and when it happens the scene holds one mesh object,
\* parented with automatic weights to the one armature and carrying one
\* material, and the exporter is called with skins on and animations off.
C5_OrderAndExport ==
    /\ IsPrefix(SelectSeq(log, IsClaimedStep), ClaimedOrder)
    /\ Len(export_calls) <= 1
    /\ pc = "done" => Len(export_calls) = 1 /\ failed_at = "none"
    /\ export_calls # << >> =>
        /\ SelectSeq(log, IsClaimedStep) = ClaimedOrder
        /\ log[Len(log)] = "export_glb"
        /\ MeshObjects = { [name |-> mesh.name, kind |-> "MESH"] }
        /\ Cardinality(ArmatureObjects) = 1
        /\ mesh_parent.object \in { o.name : o \in ArmatureObjects }
        /\ mesh_parent.type = "ARMATURE_AUTO"
        /\ Len(materials) = 1
        /\ export_calls[1].export_skins
        /\ ~export_calls[1].export_animations
        /\ export_calls[1].selection = MeshObjects \cup ArmatureObjects

C5_Witness ==
    /\ pc = "done"
    /\ Len(export_calls) = 1
    /\ Len(log) = Len(MainSteps)

\* C6: when a step of main raises the run aborts there: nothing happens
\* afterwards, the failed step is not logged as returned, and if the failure
\* came before the export step there is no export, no file and no success
\* message.
C6_AbortOnFailure ==
    /\ [](failed_at # "none" =>
            /\ pc = "aborted"
            /\ failed_at \notin { log[k] : k \in 1..Len(log) }
            /\ DoneMessage \notin { stdout[k] : k \in 1..Len(stdout) }
            /\ failed_at # "export_glb" => export_calls = << >> /\ files = {})
    /\ [][failed_at # "none" => UNCHANGED vars]_vars

C6_Witness ==
    /\ failed_at = "create_armature"
    /\ pc = "aborted"
    /\ mesh # NoMesh
    /\ export_calls = << >>

\* The location C8 names: the fixed relative path under the working
\* directory when that holds apps/client/public, else under the parent of
\* the script's directory.
ExpectedOutputPath ==
    IF (CWD \o << "apps", "client", "public" >>) \in fs_dirs
    THEN CWD \o << "apps", "client", "public", "models", "bean_character.glb" >>
    ELSE << "project", "apps", "client", "public", "models", "bean_character.glb" >>

MeshReturned == pc = "print_mesh_stats"

LimbBone ==
    { << "UpperArm_L", "l_upperArm" >>, << "ForeArm_L", "l_foreArm" >>,
      << "UpperArm_R", "r_upperArm" >>, << "ForeArm_R", "r_foreArm" >>,
      << "Thigh_L", "l_thigh" >>, << "Shin_L", "l_shin" >>,
      << "Thigh_R", "r_thigh" >>, << "Shin_R", "r_shin" >> }

LeftRight ==
    { << "UpperArm_L", "UpperArm_R" >>, << "ForeArm_L", "ForeArm_R" >>,
      << "Thigh_L", "Thigh_R" >>, << "Shin_L", "Shin_R" >>,
      << "l_upperArm", "r_upperArm" >>, << "l_foreArm", "r_foreArm" >>,
      << "l_thigh", "r_thigh" >>, << "l_shin", "r_shin" >> }

PartNames == { limb_parts[k].name : k \in 1..Len(limb_parts) }
PartNamed(n) == limb_parts[CHOOSE k \in 1..Len(limb_parts) : limb_parts[k].name = n]

\* The two end points of a placed capsule's cylinder axis.
AxisEnds(part) ==
    { ApplyTransform(<< 0, part.half_length, 0 >>, part.rotation_z, part.location),
      ApplyTransform(<< 0, -part.half_length, 0 >>, part.rotation_z, part.location) }

Sign(x) == IF x > 0 THEN 1 ELSE IF x < 0 THEN -1 ELSE 0

\* A point moved by d along the bone's direction (the bones are axis
\* aligned).
Along(bone, p, d) ==
    << p[1] + d * Sign(bone.tail[1] - bone.head[1]),
       p[2] + d * Sign(bone.tail[2] - bone.head[2]),
       p[3] + d * Sign(bone.tail[3] - bone.head[3]) >>

Mirror(p) == << -p[1], p[2], p[3] >>

SeqRange(q) == { q[k] : k \in 1..Len(q) }

RigBuilt == limb_parts # << >> /\ bones # << >>

MirrorImages ==
    \A lr \in LeftRight :
        /\ lr[1] \in BoneNames =>
              /\ lr[2] \in BoneNames
              /\ BoneNamed(lr[2]).head = Mirror(BoneNamed(lr[1]).head)
              /\ BoneNamed(lr[2]).tail = Mirror(BoneNamed(lr[1]).tail)
        /\ lr[1] \in PartNames =>
              /\ lr[2] \in PartNames
              /\ PartNamed(lr[2]).location = Mirror(PartNamed(lr[1]).location)
              /\ SeqRange(PlacedVerts(PartNamed(lr[2])))
                   = { Mirror(v) : v \in SeqRange(PlacedVerts(PartNamed(lr[1]))) }

\* C10 as stated: every limb bone's head and tail are the end points of its
\* capsule's cylinder axis, and left and right mirror each other.
C10_BonesOnAxes ==
    RigBuilt =>
        /\ \A lb \in LimbBone :
              AxisEnds(PartNamed(lb[1])) = { BoneNamed(lb[2]).head, BoneNamed(lb[2]).tail }
        /\ MirrorImages

DistalGap(part_name) ==
    IF part_name \in { "ForeArm_L", "ForeArm_R" } THEN FOREARM_GAP
    ELSE IF part_name \in { "Shin_L", "Shin_R" } THEN SHIN_GAP
    ELSE 0

\* C10, amended: the upper-arm and thigh bones have their head and tail on
\* the end points of their capsule's cylinder axis; the forearm and shin
\* capsules sit 0.02 further out along the limb, so their axis end points
\* are the bone's head and tail moved 0.02 in the head-to-tail direction;
\* left and right bones and capsules mirror each other across x = 0.
C10_BonesOnAxesUpToGap ==
    RigBuilt =>
        /\ PartNames = { lb[1] : lb \in LimbBone }
        /\ \A lb \in LimbBone :
              LET bone == BoneNamed(lb[2]) IN
              AxisEnds(PartNamed(lb[1]))
                = { Along(bone, bone.head, DistalGap(lb[1])),
                    Along(bone, bone.tail, DistalGap(lb[1])) }
        /\ MirrorImages

C10_Witness ==
    /\ RigBuilt
    /\ AxisEnds(PartNamed("Thigh_L")) = { BoneNamed("l_thigh").head, BoneNamed("l_thigh").tail }
    /\ AxisEnds(PartNamed("Shin_L")) # { BoneNamed("l_shin").head, BoneNamed("l_shin").tail }
====
